---- MODULE Spec2Model ----
(***************************************************************************)
(* Model of src/src/slacknotifier.py: the Lambda handler that turns SQL    *)
(* Server error-log lines delivered by CloudWatch Logs into DynamoDB items *)
(* and throttled Slack alerts.                                             *)
(*                                                                         *)
(* A log line is a sequence of tokens (the pieces the regular expressions  *)
(* of the source look for); a DynamoDB item is a function from attribute   *)
(* names to values; the table is the set of its items; the Slack channel   *)
(* is the sequence of posts the webhook accepted.  lambda_handler is cut   *)
(* at its blocking calls (table and webhook), one action per call, with    *)
(* pc[i] the position of invocation i.                                     *)
(***************************************************************************)
EXTENDS Integers, Sequences, FiniteSets, TLC

(***************************************************************************)
(* Bounds of the model.                                                    *)
(***************************************************************************)
MaxLines == 3        \* log events delivered over the whole run
MaxStoreFaults == 1  \* failed table calls over the whole run
MaxSlackFaults == 1  \* failed webhook calls over the whole run
MaxTicks == 2        \* clock advances over the whole run

(***************************************************************************)
(* Program constants.                                                      *)
(***************************************************************************)
NOTIFICATION_COOLDOWN_MINUTES == 15     \* os.environ default, line 134
TTL_HOURS == 48                         \* os.environ default, line 97

StartTime == 1700000000                 \* int(time.time()) when the run starts

Procs == {1, 2}                         \* invocation slots
None == [none |-> TRUE]                 \* Python's None

VARIABLES
    store,             \* the DynamoDB table: a set of items
    slack,             \* posts the webhook answered with 200, in order
    now,               \* the clock, as last read
    store_faults,      \* failed table calls so far
    slack_faults,      \* failed webhook calls so far
    fed,               \* log events handed to invocations so far
    pc,                \* position of each invocation in lambda_handler
    left,              \* log events of the batch not yet iterated over
    log_stream,        \* log_data['logStream'] of each invocation
    message_text,      \* log_event['message'] of the event being processed
    error_data,        \* local of lambda_handler
    incomplete_error,  \* local of lambda_handler
    updated_error,     \* local of lambda_handler
    log,               \* what the handler printed for the current event
    last_header        \* history: the last error line (either shape) taken up,
                       \* and how many unrecognized lines followed it

vars == <<store, slack, now, store_faults, slack_faults, fed, pc, left, log_stream, message_text,
          error_data, incomplete_error, updated_error, log, last_header>>

(***************************************************************************)
(* Log lines.  A line is a sequence of tokens separated by white space:    *)
(*   ts    a time stamp "YYYY-MM-DD HH:MM:SS.fff"                          *)
(*   spid  a process id "spid51"                                           *)
(*   msg   "Msg n, Level l, State s, Server x, Line k"                     *)
(*   err   "Error: n, Severity: l, State: s"                               *)
(*   text  any other run of words, s its characters                        *)
(***************************************************************************)
TS == [k |-> "ts", s |-> "2024-01-01 10:00:00.000"]
SPID == [k |-> "spid", s |-> "spid51"]
MSG(n, l, s, ln) == [k |-> "msg", n |-> n, level |-> l, state |-> s, line |-> ln]
ERR(n, l, s) == [k |-> "err", n |-> n, level |-> l, state |-> s]
TEXT(s) == [k |-> "text", s |-> s]

\* The log events the log source can deliver (message texts): a one-line
\* error, the same error at another level, the first half of a two-part
\* error, a description, and a log-cycling notice that also has the shape
\* of a first half.
LineMsg == <<MSG(9002, 17, 2, 1), TEXT("The transaction log is full.")>>
LineMsgOtherLevel == <<MSG(9002, 16, 2, 1), TEXT("The transaction log is full.")>>
LineErr == <<TS, SPID, ERR(9002, 17, 2)>>
LineDesc == <<TS, SPID, TEXT("The transaction log for database is full.")>>
LineCycle == <<TS, SPID, ERR(9002, 17, 2), TEXT("ATTEMPTING TO CYCLE ERROR LOG")>>

Lines == {LineMsg, LineMsgOtherLevel, LineErr, LineDesc, LineCycle}

\* log_event['timestamp'] values the log source can deliver.
Timestamps == {StartTime - 1, StartTime}

LogGroup == "/aws/rds/instance/db/error"
LogStreams == {"stream-a"}
AllLogStreams == LogStreams \cup {"stream-b"}

Get(item, attr, default) == IF attr \in DOMAIN item THEN item[attr] ELSE default

\* Positions of a line at which a token satisfying P stands.
Positions(line, P(_)) == {p \in DOMAIN line : P(line[p])}

Min(S) == CHOOSE x \in S : \A y \in S : x <= y

\* re.IGNORECASE: both sides are compared in lower case.
Lower(s) ==
    CASE s = "ATTEMPTING TO CYCLE ERROR LOG" -> "attempting to cycle error log"
      [] s = "Attempting to cycle error log" -> "attempting to cycle error log"
      [] s = "The transaction log is full." -> "the transaction log is full."
      [] s = "The transaction log for database is full." -> "the transaction log for database is full."
      [] OTHER -> s

ignore_patterns ==
    { "Attempting to cycle error log",
      "Logging SQL Server messages in file",
      "DBCC CHECKDB .* found 0 errors and repaired 0 errors",
      "This is an informational message only",
      "The error log has been reinitialized",
      "The last error 0 was within the time threshold for the duplicate count",
      "DBCC execution completed. If DBCC printed error messages, contact your system administrator.",
      "DBCC STDOUT:",
      "DBCC STDERR:",
      "DBCC has extra input",
      "DBCC is not currently processing any command" }

\* re.search(pattern, message, re.IGNORECASE) for some pattern of the list.
should_ignore_message(message) ==
    \E pattern \in ignore_patterns :
        \E p \in DOMAIN message :
            /\ message[p].k = "text"
            /\ Lower(message[p].s) = Lower(pattern)

\* re.search of the time stamp pattern: the first one of the line, or "".
extract_timestamp(message) ==
    LET at == Positions(message, LAMBDA t : t.k = "ts")
    IN  IF at # {} THEN message[Min(at)].s ELSE ""

\* Pattern 1 needs the "Msg ..." head and at least one character after it
\* ("\s+(.+)"): the message is the rest of the line.
Pattern1At(message) ==
    Positions(message, LAMBDA t : t.k = "msg") \ {Len(message)}

Pattern2At(message) == Positions(message, LAMBDA t : t.k = "err")

parse_sql_error(message) ==
    LET log_timestamp == extract_timestamp(message)
    IN  IF Pattern1At(message) # {}
        THEN LET p == Min(Pattern1At(message))
             IN  [error_number |-> message[p].n,
                  level |-> message[p].level,
                  state |-> message[p].state,
                  line |-> message[p].line,
                  message |-> SubSeq(message, p + 1, Len(message)),
                  full_message |-> message,
                  log_timestamp |-> log_timestamp,
                  is_complete |-> TRUE]
        ELSE IF Pattern2At(message) # {}
        THEN LET p == Min(Pattern2At(message))
             IN  [error_number |-> message[p].n,
                  level |-> message[p].level,
                  state |-> message[p].state,
                  line |-> 0,
                  message |-> <<>>,
                  full_message |-> message,
                  log_timestamp |-> log_timestamp,
                  is_complete |-> FALSE]
        ELSE None

\* The description kept as it came.
keep_error_message(message) == message

\* re.sub of "^<time stamp>\s+spid\d+\s+" by "": only a leading pair is cut.
clean_error_message(message) ==
    IF Len(message) >= 2 /\ message[1].k = "ts" /\ message[2].k = "spid"
    THEN SubSeq(message, 3, Len(message))
    ELSE message

(***************************************************************************)
(* The DynamoDB table.  Its primary key is (error_number, timestamp).      *)
(***************************************************************************)
Key(item) == <<item.error_number, item.timestamp>>

Max(S) == CHOOSE x \in S : \A y \in S : x >= y

\* table.put_item(Item=item): the item replaces the one with its key.
put_item(table, item) == {x \in table : Key(x) # Key(item)} \cup {item}

\* update_item writing the SET attributes as a whole new item.
replaced_item(table, key, fields) ==
    fields @@ [error_number |-> key[1], timestamp |-> key[2]]

\* The item update_item leaves under key (ReturnValues="ALL_NEW"): the SET
\* attributes over the stored item, or over the bare key when no item is
\* stored under it.
updated_item(table, key, fields) ==
    LET old == {x \in table : Key(x) = key}
    IN  IF old = {}
        THEN fields @@ [error_number |-> key[1], timestamp |-> key[2]]
        ELSE fields @@ (CHOOSE x \in old : TRUE)

\* table.update_item(Key=key, UpdateExpression="SET ...").
update_item(table, key, fields) ==
    {x \in table : Key(x) # key} \cup {updated_item(table, key, fields)}

\* The query without its FilterExpression.
query_any_level(table, error_number, level, state) ==
    {x \in table : x.error_number = error_number}

\* table.query on the partition error_number, filtered on level and state.
query(table, error_number, level, state) ==
    {x \in table : /\ x.error_number = error_number
                   /\ Get(x, "level", -1) = level
                   /\ Get(x, "state", -1) = state}

\* table.scan filtered on is_complete = False, page after page until no
\* LastEvaluatedKey comes back.  The table decides where a page ends: a page
\* covers between one and ScanPageSize of the items not yet read, and the
\* filter is applied to the page after it is cut.
ScanPageSize == 1

Pages(unread) ==
    {P \in SUBSET unread : P # {} /\ Cardinality(P) <= ScanPageSize}

\* The filter expression Attr('is_complete').eq(False) on one page.
FilterIncomplete(page) ==
    {x \in page : "is_complete" \in DOMAIN x /\ x.is_complete = FALSE}

\* The scan loop giving up after its first response.
scan_first_page(unread, all_incomplete_items) ==
    IF unread = {}
    THEN {all_incomplete_items}
    ELSE {all_incomplete_items \cup FilterIncomplete(page) : page \in Pages(unread)}

\* The while loop of lines 178-193: every value all_incomplete_items can
\* have when the loop ends, over the ways the table can cut the pages.
RECURSIVE scan_all_pages(_, _)
scan_all_pages(unread, all_incomplete_items) ==
    IF unread = {}
    THEN {all_incomplete_items}
    ELSE UNION {scan_all_pages(unread \ page,
                               all_incomplete_items \cup FilterIncomplete(page)) :
                    page \in Pages(unread)}

(***************************************************************************)
(* The functions of the source, as operators.                              *)
(***************************************************************************)
\* current_time > 1000000000000, written without the 13-digit literal.
IsMilliseconds(current_time) ==
    \/ current_time \div 1000 > 1000000000
    \/ current_time \div 1000 = 1000000000 /\ current_time % 1000 > 0

\* store_in_dynamodb initialising slack_message_sent to True.
store_in_dynamodb_sent(data) ==
    [timestamp |-> Get(data, "timestamp", 0),
     expiry_time |-> Get(data, "timestamp", 0) + TTL_HOURS * 3600,
     last_slack_notification |-> 0,
     slack_message_sent |-> TRUE] @@ data

\* The item store_in_dynamodb builds from error_data and hands to put_item
\* (utc_time, a wall-clock string no code reads, is left out).
store_in_dynamodb(data) ==
    LET current_time == Get(data, "timestamp", 0)
        ttl_hours == TTL_HOURS
        current_time_seconds == IF IsMilliseconds(current_time)
                                THEN current_time \div 1000 ELSE current_time
    IN  [timestamp |-> current_time,
         expiry_time |-> current_time_seconds + ttl_hours * 3600,
         last_slack_notification |-> 0,
         slack_message_sent |-> FALSE] @@ data

cooldown_seconds == NOTIFICATION_COOLDOWN_MINUTES * 60

\* ttl_hours * 3600 of line 101.
retention_seconds == TTL_HOURS * 3600

\* Line 138 with >= for >.
cooldown_passed_at_boundary(current_time, most_recent_notification) ==
    current_time - most_recent_notification >= cooldown_seconds

\* Line 138.
cooldown_passed(current_time, most_recent_notification) ==
    current_time - most_recent_notification > cooldown_seconds

\* The try block of should_send_slack_notification, the query answered.
should_send_slack_notification(table, current_time, error_number, level, state) ==
    LET Items == query(table, error_number, level, state)
        most_recent_notification ==
            Max({0} \cup {Get(item, "last_slack_notification", 0) : item \in Items})
    IN  IF Cardinality(Items) = 0
        THEN TRUE
        ELSE cooldown_passed(current_time, most_recent_notification)

\* The except block failing closed.
query_failed_closed == FALSE

\* The except block of should_send_slack_notification.
query_failed_default == TRUE

\* find_incomplete_error without the is_complete filter.
find_any_error(table) ==
    {x \in table : \A y \in table : Get(x, "timestamp", 0) >= Get(y, "timestamp", 0)}

\* What find_incomplete_error can return when the scan is answered: an item
\* that sorts first by descending timestamp (the sort is stable, so items
\* of equal timestamp keep the order the table handed them out in), and
\* nothing (None) when no incomplete item was read.
find_incomplete_error(table) ==
    UNION {{x \in all_incomplete_items :
                \A y \in all_incomplete_items :
                    Get(x, "timestamp", 0) >= Get(y, "timestamp", 0)} :
              all_incomplete_items \in scan_all_pages(table, {})}

\* The SET clause of update_error_with_description.
description_fields(description) ==
    [message |-> clean_error_message(description), is_complete |-> TRUE]

\* The SET clause without slack_message_sent.
notification_time_only(current_time) ==
    [last_slack_notification |-> current_time]

\* The SET clause of update_slack_notification_status.
notification_fields(current_time) ==
    [last_slack_notification |-> current_time, slack_message_sent |-> TRUE]

\* post_to_slack on the webhook's answer: a response with a status, or no
\* response (http.request raised).
post_to_slack(resp) ==
    IF resp = None THEN "HTTPError"
    ELSE IF resp.status # 200 THEN "ValueError"
    ELSE "ok"

Responses == {[status |-> 200], [status |-> 500], None}

\* The handler parsing before it looks at the ignore list.
route_parse_first(text) ==
    IF parse_sql_error(text) # None THEN "store"
    ELSE IF should_ignore_message(text) THEN "ignore"
    ELSE "describe"

\* Lines 273-279 and 318: what lambda_handler does with a log event.
route(text) ==
    IF should_ignore_message(text) THEN "ignore"
    ELSE IF parse_sql_error(text) = None THEN "describe"
    ELSE "store"

\* Line 326 without its first conjunct.
no_complete_guard(data) == TRUE

\* Line 326, first conjunct: only a complete error goes on to the throttle.
is_complete_guard(data) == Get(data, "is_complete", FALSE)

\* The handler going on to update_slack_notification_status after a
\* ValueError.
after_post_always_mark(result) ==
    CASE result = "ok" -> "mark"
      [] result = "ValueError" -> "mark"
      [] OTHER -> "aborted"

\* Lines 305-309 and 338-343: where the handler goes after post_to_slack.
after_post(result) ==
    CASE result = "ok" -> "mark"
      [] result = "ValueError" -> "loop"
      [] OTHER -> "aborted"

\* The handler posting whatever the throttle answered.
after_throttle_always_send(send) == "send"

\* Lines 293/310 and 326/346: where the handler goes after the throttle.
after_throttle(send) == IF send THEN "send" ELSE "loop"

\* The Slack text, lines 295-303 (from updated_error) and 328-336.
slack_message(data, log_group, stream) ==
    [error_number |-> data.error_number,
     level |-> data.level,
     state |-> data.state,
     log_timestamp |-> Get(data, "log_timestamp", ""),
     message |-> data.message,
     log_group |-> log_group,
     log_stream |-> stream]

(***************************************************************************)
(* The state machine.                                                      *)
(***************************************************************************)
Init ==
    /\ store = {}
    /\ slack = <<>>
    /\ now = StartTime
    /\ store_faults = 0
    /\ slack_faults = 0
    /\ fed = 0
    /\ pc = [i \in Procs |-> "idle"]
    /\ left = [i \in Procs |-> 0]
    /\ log_stream = [i \in Procs |-> ""]
    /\ message_text = [i \in Procs |-> <<>>]
    /\ error_data = [i \in Procs |-> None]
    /\ incomplete_error = [i \in Procs |-> None]
    /\ updated_error = [i \in Procs |-> None]
    /\ log = [i \in Procs |-> <<>>]
    /\ last_header = None

Running(i) == pc[i] \notin {"idle", "done", "aborted"}

\* Time passes: a whole cooldown, or more than the retention of a record,
\* between two invocations, and no more than a second between two clock
\* reads (lines 137, 153) or webhook answers of one invocation.
TicksOf(t) ==
    LET d == t - StartTime
        r == d % (retention_seconds + 1)
    IN  (d \div (retention_seconds + 1)) + (r \div cooldown_seconds)
            + (r % cooldown_seconds)

Elapse(delays) ==
    \E d \in delays :
        /\ TicksOf(now + d) <= MaxTicks
        /\ now' = now + d

\* A table call may fail (ClientError) while the fault budget lasts.
Outcomes == IF store_faults < MaxStoreFaults THEN {TRUE, FALSE} ELSE {TRUE}

Fault(ok) ==
    /\ store_faults' = IF ok THEN store_faults ELSE store_faults + 1
    /\ UNCHANGED slack_faults

\* lambda_handler entered with a batch of n log events (lines 260-267).  A
\* payload that does not decode raises before any event is looked at.
StartBatch(i, streams, sizes, delays) ==
    /\ ~Running(i)
    /\ fed < MaxLines
    /\ \E decoded \in BOOLEAN :
        IF decoded
        THEN \E n \in sizes \cap (1..(MaxLines - fed)), stream \in streams :
                /\ pc' = [pc EXCEPT ![i] = "loop"]
                /\ left' = [left EXCEPT ![i] = n]
                /\ fed' = fed + n
                /\ log_stream' = [log_stream EXCEPT ![i] = stream]
                /\ log' = [log EXCEPT ![i] = <<>>]
        ELSE /\ pc' = [pc EXCEPT ![i] = "aborted"]
             /\ left' = [left EXCEPT ![i] = 0]
             /\ log' = [log EXCEPT ![i] = <<"decode_failed">>]
             /\ UNCHANGED <<fed, log_stream>>
    /\ message_text' = [message_text EXCEPT ![i] = <<>>]
    /\ error_data' = [error_data EXCEPT ![i] = None]
    /\ incomplete_error' = [incomplete_error EXCEPT ![i] = None]
    /\ updated_error' = [updated_error EXCEPT ![i] = None]
    /\ Elapse(delays)
    /\ UNCHANGED <<last_header, store, slack, store_faults, slack_faults>>

\* Batches of any size, a whole cooldown or more than a record's retention
\* apart.
BatchSizes == 1..MaxLines
BatchDelays == {0, cooldown_seconds, retention_seconds + 1}

Start(i) == StartBatch(i, LogStreams, BatchSizes, BatchDelays)

\* Single-consumer processing: one invocation at a time.
StartSingle(i) ==
    /\ i = 1
    /\ Start(i)

\* The for loop takes the next log event (lines 270-279, 315-322).
NextLine(i) ==
    /\ pc[i] = "loop"
    /\ left[i] > 0
    /\ \E text \in Lines, timestamp \in Timestamps :
        /\ message_text' = [message_text EXCEPT ![i] = text]
        /\ CASE route(text) = "ignore" ->
                  /\ pc' = [pc EXCEPT ![i] = "loop"]
                  /\ error_data' = [error_data EXCEPT ![i] = None]
                  /\ log' = [log EXCEPT ![i] = <<"ignored">>]
                  /\ UNCHANGED last_header
             [] route(text) = "describe" ->
                  /\ pc' = [pc EXCEPT ![i] = "find"]
                  /\ error_data' = [error_data EXCEPT ![i] = None]
                  /\ log' = [log EXCEPT ![i] = <<>>]
                  /\ last_header' = IF last_header = None THEN None
                                     ELSE [last_header EXCEPT !.followed = @ + 1]
             [] OTHER ->
                  /\ pc' = [pc EXCEPT ![i] = "put"]
                  /\ error_data' = [error_data EXCEPT ![i] =
                        [log_group |-> LogGroup,
                         log_stream |-> log_stream[i],
                         timestamp |-> timestamp] @@ parse_sql_error(text)]
                  /\ log' = [log EXCEPT ![i] = <<>>]
                  /\ last_header' = [timestamp |-> timestamp, followed |-> 0]
                                        @@ parse_sql_error(text)
    /\ left' = [left EXCEPT ![i] = left[i] - 1]
    /\ incomplete_error' = [incomplete_error EXCEPT ![i] = None]
    /\ updated_error' = [updated_error EXCEPT ![i] = None]
    /\ UNCHANGED <<store, slack, now, store_faults, slack_faults, fed, log_stream>>

\* The loop is over: statusCode 200 (lines 351-354).
Return(i) ==
    /\ pc[i] = "loop"
    /\ left[i] = 0
    /\ pc' = [pc EXCEPT ![i] = "done"]
    /\ UNCHANGED <<last_header, store, slack, now, store_faults, slack_faults, fed, left, log_stream, message_text,
                   error_data, incomplete_error, updated_error, log>>

\* store_in_dynamodb(error_data) and the test of line 326 (lines 324-326, 344).
StoreInDynamodb(i) ==
    /\ pc[i] = "put"
    /\ LET item == store_in_dynamodb(error_data[i])
       IN  /\ error_data' = [error_data EXCEPT ![i] = item]
           /\ \E ok \in Outcomes :
                /\ Fault(ok)
                /\ store' = IF ok THEN put_item(store, item) ELSE store
                /\ log' = [log EXCEPT ![i] =
                              Append(@, IF ok THEN "put_ok" ELSE "put_failed")]
           /\ pc' = [pc EXCEPT ![i] =
                        IF is_complete_guard(item) THEN "throttle" ELSE "loop"]
    /\ UNCHANGED <<last_header, slack, now, fed, left, log_stream, message_text,
                   incomplete_error, updated_error>>

\* find_incomplete_error() (lines 281-287).
FindIncompleteError(i) ==
    /\ pc[i] = "find"
    /\ \E ok \in Outcomes :
        /\ Fault(ok)
        /\ IF ok /\ find_incomplete_error(store) # {}
           THEN \E item \in find_incomplete_error(store) :
                    /\ incomplete_error' = [incomplete_error EXCEPT ![i] = item]
                    /\ pc' = [pc EXCEPT ![i] = "update"]
                    /\ log' = [log EXCEPT ![i] = Append(@, "found")]
           ELSE /\ incomplete_error' = [incomplete_error EXCEPT ![i] = None]
                /\ pc' = [pc EXCEPT ![i] = "loop"]
                /\ log' = [log EXCEPT ![i] =
                              Append(@, IF ok THEN "no_incomplete" ELSE "scan_failed")]
    /\ UNCHANGED <<last_header, store, slack, now, fed, left, log_stream, message_text,
                   error_data, updated_error>>

\* update_error_with_description(incomplete_error, message_text) (lines 290-291).
UpdateErrorWithDescription(i) ==
    /\ pc[i] = "update"
    /\ LET key == Key(incomplete_error[i])
           fields == description_fields(message_text[i])
       IN  \E ok \in Outcomes :
            /\ Fault(ok)
            /\ IF ok
               THEN /\ store' = update_item(store, key, fields)
                    /\ updated_error' = [updated_error EXCEPT ![i] =
                                            updated_item(store, key, fields)]
                    /\ pc' = [pc EXCEPT ![i] = "throttle"]
                    /\ log' = [log EXCEPT ![i] = Append(@, "updated")]
               ELSE /\ store' = store
                    /\ updated_error' = [updated_error EXCEPT ![i] = None]
                    /\ pc' = [pc EXCEPT ![i] = "loop"]
                    /\ log' = [log EXCEPT ![i] = Append(@, "update_failed")]
    /\ UNCHANGED <<last_header, slack, now, fed, left, log_stream, message_text, error_data,
                   incomplete_error>>

\* The error the handler is about to alert on: updated_error on the
\* description path, error_data on the header path.
Subject(i) == IF updated_error[i] # None THEN updated_error[i] ELSE error_data[i]

\* should_send_slack_notification(...) (lines 293 and 326).
ShouldSendSlackNotification(i) ==
    /\ pc[i] = "throttle"
    /\ LET e == Subject(i)
       IN  \E ok \in Outcomes :
            /\ Fault(ok)
            /\ Elapse({0, 1})
            /\ LET send == IF ok
                           THEN should_send_slack_notification(
                                    store, now', e.error_number, e.level, e.state)
                           ELSE query_failed_default
               IN  /\ pc' = [pc EXCEPT ![i] = after_throttle(send)]
                   /\ log' = [log EXCEPT ![i] =
                                 Append(@, IF ~ok THEN "query_failed"
                                           ELSE IF send THEN "allowed"
                                           ELSE "suppressed")]
    /\ UNCHANGED <<last_header, store, slack, fed, left, log_stream, message_text,
                   error_data, incomplete_error, updated_error>>

\* post_to_slack(message) (lines 305-309 and 338-343).
PostToSlack(i) ==
    /\ pc[i] = "send"
    /\ LET e == Subject(i)
           message == IF updated_error[i] # None
                      THEN slack_message(e, e.log_group, e.log_stream)
                      ELSE slack_message(e, LogGroup, log_stream[i])
       IN  \E resp \in Responses :
            LET result == post_to_slack(resp)
            IN  /\ result # "ok" => slack_faults < MaxSlackFaults
                /\ slack_faults' = IF result = "ok" THEN slack_faults
                                                     ELSE slack_faults + 1
                /\ Elapse({0, 1})
                /\ slack' = IF result = "ok"
                            THEN Append(slack, [text |-> message,
                                                error_number |-> e.error_number,
                                                timestamp |-> e.timestamp,
                                                at |-> now'])
                            ELSE slack
                /\ pc' = [pc EXCEPT ![i] = after_post(result)]
                /\ log' = [log EXCEPT ![i] =
                              Append(@, IF result = "ok" THEN "posted" ELSE result)]
    /\ UNCHANGED <<last_header, store, store_faults, fed, left, log_stream, message_text,
                   error_data, incomplete_error, updated_error>>

\* update_slack_notification_status(error_number, timestamp) (lines 307, 341).
UpdateSlackNotificationStatus(i) ==
    /\ pc[i] = "mark"
    /\ LET e == Subject(i)
       IN  \E ok \in Outcomes :
            /\ Fault(ok)
            /\ Elapse({0, 1})
            /\ store' = IF ok
                        THEN update_item(store, Key(e), notification_fields(now'))
                        ELSE store
            /\ log' = [log EXCEPT ![i] =
                          Append(@, IF ok THEN "marked" ELSE "mark_failed")]
    /\ pc' = [pc EXCEPT ![i] = "loop"]
    /\ UNCHANGED <<last_header, slack, fed, left, log_stream, message_text, error_data,
                   incomplete_error, updated_error>>

Step(i) ==
    \/ NextLine(i)
    \/ Return(i)
    \/ StoreInDynamodb(i)
    \/ FindIncompleteError(i)
    \/ UpdateErrorWithDescription(i)
    \/ ShouldSendSlackNotification(i)
    \/ PostToSlack(i)
    \/ UpdateSlackNotificationStatus(i)

\* Single-consumer, in-order processing.
Next ==
    \/ \E i \in Procs : StartSingle(i)
    \/ \E i \in Procs : Step(i)

Spec == Init /\ [][Next]_vars

\* Single-consumer processing of batches that come from two log streams,
\* one right after the other.
StartSingleAnyStream(i) ==
    /\ i = 1
    /\ StartBatch(i, AllLogStreams, BatchSizes, {0})

NextStreams ==
    \/ \E i \in Procs : StartSingleAnyStream(i)
    \/ \E i \in Procs : Step(i)

SpecStreams == Init /\ [][NextStreams]_vars

\* Two invocations running at once on the same table (Lambda starts one per
\* delivered batch; nothing in the source serialises them), each started
\* once, on a batch of one log event.
StartConcurrent(i) ==
    /\ pc[i] = "idle"
    /\ StartBatch(i, LogStreams, {1}, {0, cooldown_seconds})

NextConcurrent ==
    \/ \E i \in Procs : StartConcurrent(i)
    \/ \E i \in Procs : Step(i)

SpecConcurrent == Init /\ [][NextConcurrent]_vars

(***************************************************************************)
(* Vocabulary of the properties.                                           *)
(***************************************************************************)
Range(f) == {f[x] : x \in DOMAIN f}

Last(q) == q[Len(q)]

\* The notification identity of an item, an error or a Slack text.
Identity(x) == <<x.error_number, x.level, x.state>>

\* The stored records of a notification identity.
RecordsOf(id) ==
    {x \in store : /\ {"level", "state"} \subseteq DOMAIN x
                   /\ Identity(x) = id}

\* The greatest lastNotifiedAt of an identity, 0 if it was never notified.
MaxLastNotifiedAt(id) ==
    Max({0} \cup {x.last_slack_notification : x \in RecordsOf(id)})

\* The throttle's rule as the specification words it.
ThrottleRule(id) ==
    \/ RecordsOf(id) = {}
    \/ now - MaxLastNotifiedAt(id) > NOTIFICATION_COOLDOWN_MINUTES * 60

\* What the throttle printed for the current event, if it was asked.
ThrottleAnswers == {"allowed", "suppressed", "query_failed"}

TransportFailures == {"ValueError", "HTTPError"}

\* C1: under single-consumer processing with every table call answered, two
\* alerts the webhook accepted for one notification identity are more than
\* cooldownSeconds apart, whatever the lines (reused keys included).
C1_Cooldown ==
    store_faults = 0 =>
        \A a, b \in DOMAIN slack :
            (a < b /\ Identity(slack[a].text) = Identity(slack[b].text))
                => slack[b].at - slack[a].at > NOTIFICATION_COOLDOWN_MINUTES * 60

\* C2: when the invocation has returned, the alert of a record that was
\* complete while its identity was outside the cooldown window (the throttle,
\* answered by the table, allowed it) has been accepted by the webhook.
C2_AtLeastOnce ==
    \A i \in Procs :
        (pc[i] = "done" /\ "allowed" \in Range(log[i]))
            => \E k \in DOMAIN slack :
                   /\ slack[k].error_number = Subject(i).error_number
                   /\ slack[k].timestamp = Subject(i).timestamp

\* C3 (as claimed): right after a dispatch that ended in a transport failure,
\* shouldNotify for the same identity, the table readable, returns true.
C3_RetryEligible ==
    \A i \in Procs :
        (log[i] # <<>> /\ Last(log[i]) = "ValueError")
            => ThrottleRule(Identity(Subject(i)))

\* C4: no failure while a line is processed halts the batch: an invocation
\* whose payload decoded never ends by raising.
C4_BatchNeverHalts ==
    \A i \in Procs : pc[i] = "aborted" => log[i] = <<"decode_failed">>

\* C3 (amended): a post_to_slack that fails leaves the table as it was and
\* does not lead to update_slack_notification_status; and when the throttle
\* that allowed the dispatch was answered by the table, shouldNotify for
\* the same identity, asked right after the failure, still returns true.
C3_FailureLeavesEligible ==
    [][\A i \in Procs :
        (pc[i] = "send" /\ log'[i] # log[i] /\ Last(log'[i]) \in TransportFailures)
            => /\ store' = store
               /\ pc'[i] # "mark"
               /\ "allowed" \in Range(log[i])
                    => should_send_slack_notification(
                           store', now', Subject(i).error_number,
                           Subject(i).level, Subject(i).state)]_vars

\* A dispatch the table-answered throttle allowed has ended in a ValueError.
C3_Witness ==
    \E i \in Procs :
        /\ log[i] # <<>>
        /\ Last(log[i]) = "ValueError"
        /\ "allowed" \in Range(log[i])
        /\ pc[i] = "loop"

\* The stored item under the key of x.
Stored(x) == {y \in store : Key(y) = Key(x)}

\* The event taken up last has the shape of the first half of a two-part
\* error and is not on the ignore list.
ContinuationLine(i) ==
    /\ message_text[i] # <<>>
    /\ ~should_ignore_message(message_text[i])
    /\ Pattern1At(message_text[i]) = {}
    /\ Pattern2At(message_text[i]) # {}

\* C5: the handler stands before post_to_slack only with a complete error
\* (complete in the table too, when the table took it); and the first half
\* of a two-part error is stored incomplete, with no throttle check and no
\* webhook call.
C5_IncompleteNeverAlerted ==
    \A i \in Procs :
        /\ pc[i] = "send" =>
              /\ Subject(i).is_complete = TRUE
              /\ Range(log[i]) \cap {"put_ok", "updated"} # {}
                    => \A y \in Stored(Subject(i)) : y.is_complete = TRUE
        /\ ContinuationLine(i) =>
              /\ pc[i] \in {"put", "loop", "done"}
              /\ Range(log[i]) \subseteq {"put_ok", "put_failed"}
              /\ "put_ok" \in Range(log[i])
                    => \E y \in Stored(error_data[i]) :
                           /\ y.is_complete = FALSE
                           /\ y.message = <<>>
                           /\ Identity(y) = Identity(error_data[i])

\* The first half of a two-part error has been stored and the handler has
\* gone back to the loop.
C5_Witness ==
    \E i \in Procs :
        /\ ContinuationLine(i)
        /\ pc[i] = "loop"
        /\ log[i] = <<"put_ok">>
        /\ \E y \in Stored(error_data[i]) : y.is_complete = FALSE

\* The event taken up last is unrecognized: neither shape, not ignored.
DescriptionLine(i) ==
    /\ message_text[i] # <<>>
    /\ ~should_ignore_message(message_text[i])
    /\ Pattern1At(message_text[i]) = {}
    /\ Pattern2At(message_text[i]) = {}

\* A description without its leading time stamp and process id.
Stripped(text) ==
    IF Len(text) >= 2 /\ text[1].k = "ts" /\ text[2].k = "spid"
    THEN Tail(Tail(text))
    ELSE text

\* The record of header h in table, merged with description text.
MergedIn(table, h, text) ==
    /\ Cardinality({y \in table : Key(y) = Key(h)}) = 1
    /\ \E y \in table :
        /\ Key(y) = Key(h)
        /\ y.is_complete = TRUE
        /\ Identity(y) = Identity(h)
        /\ y.message = Stripped(text)

\* C6 (as claimed), every table call answered: once the handler is past the
\* reconciliation of the first unrecognized line after a continuation
\* header (no header line in between), the table holds one record for that
\* header, complete, with the header's identity and the stripped
\* description, and the throttle is or was asked.
C6_TwoPartMerge ==
    \A i \in Procs :
        (/\ store_faults = 0
         /\ pc[i] \notin {"find", "update"}
         /\ DescriptionLine(i)
         /\ last_header # None
         /\ last_header.is_complete = FALSE
         /\ last_header.followed = 1)
            => /\ MergedIn(store, last_header, message_text[i])
               /\ pc[i] = "throttle" \/ Range(log[i]) \cap ThrottleAnswers # {}

\* The record of header h is stored, still incomplete, and newer (by
\* timestamp) than every other incomplete record.
NewestIncomplete(h) ==
    \E y \in store :
        /\ Key(y) = Key(h)
        /\ y.is_complete = FALSE
        /\ Identity(y) = Identity(h)
        /\ \A z \in store \ {y} :
              ("is_complete" \in DOMAIN z /\ z.is_complete = FALSE)
                    => z.timestamp < y.timestamp

\* C6 (amended): when the last header line was a continuation header whose
\* record is the newest incomplete one, an unrecognized line whose scan is
\* answered picks that record, and once its update is answered the table
\* holds one record for the header, complete, with the header's identity
\* and the stripped description, and the handler goes on to the throttle.
C6_MergeIntoNewest ==
    [][\A i \in Procs :
        (/\ DescriptionLine(i)
         /\ last_header # None
         /\ last_header.is_complete = FALSE
         /\ NewestIncomplete(last_header))
            => /\ (pc[i] = "find" /\ pc'[i] = "update")
                    => Key(incomplete_error'[i]) = Key(last_header)
               /\ (pc[i] = "find" /\ pc'[i] # "update")
                    => Last(log'[i]) = "scan_failed"
               /\ (pc[i] = "update" /\ Last(log'[i]) = "updated")
                    => /\ MergedIn(store', last_header, message_text[i])
                       /\ pc'[i] = "throttle"]_vars

\* The scenario of the specification: 9002/17/2 merged with its description.
C6_Witness ==
    \E i \in Procs :
        /\ pc[i] = "throttle"
        /\ Last(log[i]) = "updated"
        /\ last_header # None
        /\ Key(updated_error[i]) = Key(last_header)
        /\ Identity(updated_error[i]) = <<9002, 17, 2>>
        /\ updated_error[i].message
               = <<TEXT("The transaction log for database is full.")>>
        /\ updated_error[i] \in store

C8_FailOpen ==
    \A i \in Procs :
        (log[i] # <<>> /\ Last(log[i]) = "query_failed") => pc[i] = "send"

\* The query failed for an identity alerted within the cooldown window.
C8_Witness ==
    \E i \in Procs :
        /\ log[i] # <<>>
        /\ Last(log[i]) = "query_failed"
        /\ pc[i] = "send"
        /\ ~ThrottleRule(Identity(Subject(i)))
        /\ MaxLastNotifiedAt(Identity(Subject(i))) > 0

\* No stored record is incomplete.
NoIncomplete ==
    \A y \in store : "is_complete" \in DOMAIN y => y.is_complete = TRUE

\* C9: taking up a line on the ignore list changes neither the table nor
\* the channel and ends the line's processing at once.
C9_IgnoredNoEffect ==
    [][\A i \in Procs :
        (pc[i] = "loop" /\ left'[i] < left[i]
                        /\ should_ignore_message(message_text'[i]))
            => /\ store' = store
               /\ slack' = slack
               /\ pc'[i] = "loop"]_vars

\* An ignored line with the shape of a header was taken up while a record
\* was open.
C9_Witness ==
    \E i \in Procs :
        /\ log[i] = <<"ignored">>
        /\ Pattern2At(message_text[i]) # {}
        /\ ~NoIncomplete

\* C10: while no stored record is incomplete, an unrecognized line changes
\* neither the table nor the channel, and the handler goes from the scan
\* back to the loop.
C10_UnrecognizedDiscarded ==
    [][\A i \in Procs :
        /\ (pc[i] = "loop" /\ left'[i] < left[i] /\ NoIncomplete
                /\ route(message_text'[i]) = "describe")
              => (store' = store /\ slack' = slack /\ pc'[i] = "find")
        /\ (pc[i] = "find" /\ NoIncomplete)
              => (store' = store /\ slack' = slack /\ pc'[i] = "loop")]_vars

\* An unrecognized line was discarded while the table held only complete
\* records.
C10_Witness ==
    \E i \in Procs :
        /\ Last(<<"">> \o log[i]) = "no_incomplete"
        /\ store # {}
        /\ NoIncomplete
        /\ pc[i] = "loop"

\* A record is complete, or incomplete (a record without the attribute is
\* neither).
Complete(x) == "is_complete" \in DOMAIN x /\ x.is_complete = TRUE
Incomplete(x) == "is_complete" \in DOMAIN x /\ x.is_complete = FALSE

\* C11: completion is one-way.  No step makes a complete record incomplete
\* or replaces its message (the record stays under its key), and a record
\* goes from incomplete to complete only in the reconciliation update of an
\* invocation that selected it.
C11_CompletionOneWay ==
    [][/\ \A x \in store :
            Complete(x) => \E y \in store' : /\ Key(y) = Key(x)
                                              /\ Complete(y)
                                              /\ y.message = x.message
       /\ \A x \in store, y \in store' :
            (Key(y) = Key(x) /\ Incomplete(x) /\ Complete(y))
                => \E i \in Procs : /\ pc[i] = "update"
                                     /\ Key(incomplete_error[i]) = Key(x)]_vars

\* The greatest lastNotifiedAt of an identity among the records of a table.
MaxNotifiedIn(table, id) ==
    Max({0} \cup {Get(x, "last_slack_notification", 0) :
                     x \in {y \in table : /\ {"level", "state"} \subseteq DOMAIN y
                                          /\ Identity(y) = id}})

\* The notification identities the log source can name.
Identities == {<<9002, 16, 2>>, <<9002, 17, 2>>}

\* C12: for every notification identity, the greatest lastNotifiedAt over
\* its stored records never decreases.
C12_LastNotifiedMonotone ==
    [][\A id \in Identities :
            MaxNotifiedIn(store', id) >= MaxNotifiedIn(store, id)]_vars

\* An incomplete record of the table with the greatest timestamp among its
\* incomplete records.
GreatestIncomplete(x, table) ==
    /\ x \in table
    /\ Incomplete(x)
    /\ \A z \in table : Incomplete(z) => z.timestamp <= x.timestamp

\* C13: when the scan for an unrecognized line is answered and the table
\* holds incomplete records, the handler goes on with one of them that has
\* the greatest timestamp among all the incomplete records of the table,
\* whatever batch or stream put them and however the scan was cut in pages.
C13_ReconcilerSelection ==
    [][\A i \in Procs :
        (pc[i] = "find" /\ pc'[i] # pc[i])
            => /\ pc'[i] = "update"
                    => GreatestIncomplete(incomplete_error'[i], store)
               /\ (Last(log'[i]) # "scan_failed" /\ ~NoIncomplete)
                    => pc'[i] = "update"]_vars

\* The record picked was put from another stream than the one the line
\* came from, while an older open record of the line's own stream is
\* stored too (two records, so the scan took more than one page).
C13_Witness ==
    \E i \in Procs :
        /\ pc[i] = "update"
        /\ incomplete_error[i].log_stream # log_stream[i]
        /\ \E z \in store :
              /\ Incomplete(z)
              /\ z.log_stream = log_stream[i]
              /\ z.timestamp < incomplete_error[i].timestamp
        /\ Cardinality(store) > ScanPageSize

\* C14: the record an unrecognized line is about to be merged into has not
\* expired: its expiresAt is not before the clock.
C14_ExpiredNeverMatched ==
    \A i \in Procs :
        pc[i] = "update" => incomplete_error[i].expiry_time >= now

\* The notification fields of a record.
Notified(x) == Get(x, "slack_message_sent", FALSE)
LastNotifiedAt(x) == Get(x, "last_slack_notification", 0)

\* C15 (as claimed): when the handler is through with a line whose alert the
\* webhook accepted, the record alerted has notified = true and
\* lastNotifiedAt = the time of the send (any clock reading from the
\* webhook's answer on is taken for it).
C15_BookkeepingAfterSuccess ==
    \A i \in Procs :
        (pc[i] \in {"loop", "done"} /\ "posted" \in Range(log[i]))
            => \E y \in Stored(Subject(i)) :
                   /\ Notified(y)
                   /\ LastNotifiedAt(y) >= Last(slack).at
                   /\ LastNotifiedAt(y) <= now

\* C15 (amended): an accepted alert is followed at once by the notification
\* write for the key alerted, and the handler stands before that write only
\* right after an accepted alert; answered, the write leaves the record
\* with notified = true and lastNotifiedAt = the clock as the write read it,
\* which is not before the webhook's answer; failed, it leaves the table as
\* it was; either way the handler goes on with the next line.  No other step
\* makes a record notified or raises its lastNotifiedAt.
C15_MarkFollowsSuccess ==
    [][\A i \in Procs :
        /\ (pc[i] = "send" /\ pc'[i] # pc[i] /\ Last(log'[i]) = "posted")
              => (pc'[i] = "mark" /\ store' = store)
        /\ pc[i] = "mark" => Last(log[i]) = "posted"
        /\ (pc[i] = "mark" /\ pc'[i] # pc[i] /\ Last(log'[i]) = "marked")
              => /\ pc'[i] = "loop"
                 /\ now' >= Last(slack).at
                 /\ \E y \in store' :
                       /\ Key(y) = Key(Subject(i))
                       /\ Key(y) = <<Last(slack).error_number, Last(slack).timestamp>>
                       /\ Notified(y)
                       /\ LastNotifiedAt(y) = now'
        /\ (pc[i] = "mark" /\ pc'[i] # pc[i] /\ Last(log'[i]) = "mark_failed")
              => (pc'[i] = "loop" /\ store' = store)
        /\ (\E y \in store' :
                /\ Notified(y) \/ LastNotifiedAt(y) > 0
                /\ \A x \in store :
                      Key(x) = Key(y) =>
                          \/ Notified(y) /\ ~Notified(x)
                          \/ LastNotifiedAt(y) > LastNotifiedAt(x))
              => (pc[i] = "mark" \/ \E j \in Procs \ {i} : pc[j] = "mark")]_vars

\* The write after an accepted alert was answered, a second after the
\* webhook's answer.
C15_Witness ==
    \E i \in Procs :
        /\ pc[i] = "loop"
        /\ log[i] # <<>>
        /\ Last(log[i]) = "marked"
        /\ \E y \in Stored(Subject(i)) :
              /\ Notified(y)
              /\ LastNotifiedAt(y) = Last(slack).at + 1

\* C16: a throttle that answers false leaves the table and the channel as
\* they were and sends the handler back to the loop; the line it was asked
\* for ends with no webhook call and no notification write.
C16_SuppressionNoSideEffects ==
    [][\A i \in Procs :
        /\ (pc[i] = "throttle" /\ pc'[i] # pc[i] /\ Last(log'[i]) = "suppressed")
              => /\ store' = store
                 /\ slack' = slack
                 /\ pc'[i] = "loop"
        /\ (log[i] # <<>> /\ Last(log[i]) = "suppressed")
              => /\ pc[i] \in {"loop", "done"}
                 /\ Range(log[i]) \cap {"posted", "ValueError", "HTTPError",
                                        "marked", "mark_failed"} = {}]_vars

\* The throttle has suppressed a complete record whose identity was alerted
\* before.
C16_Witness ==
    \E i \in Procs :
        /\ log[i] # <<>>
        /\ Last(log[i]) = "suppressed"
        /\ pc[i] = "loop"
        /\ Subject(i).is_complete = TRUE
        /\ slack # <<>>
        /\ \E y \in RecordsOf(Identity(Subject(i))) : Notified(y)

\* C17: a line whose header could not be persisted, or whose reconciliation
\* update failed, gets no alert and no notification write.
C17_StoreFailureAbortsLine ==
    \A i \in Procs :
        Range(log[i]) \cap {"put_failed", "update_failed"} # {}
            => Range(log[i]) \cap {"posted", "marked"} = {}

\* The throttle's rule on a table at a time.
ThrottleRuleOn(table, t, id) ==
    \/ {y \in table : {"level", "state"} \subseteq DOMAIN y /\ Identity(y) = id} = {}
    \/ t - MaxNotifiedIn(table, id) > NOTIFICATION_COOLDOWN_MINUTES * 60

\* C18: with two invocations on one table, the throttle check and the
\* notification write are separate steps of an invocation with the webhook
\* call between them: the check writes nothing and answers by the rule on
\* the table as it is when the query is made, the webhook call writes
\* nothing, and lastNotifiedAt is raised by the notification write only.  So
\* nothing keeps the other invocation's check from running in between.
C18_CheckAndMarkSeparate ==
    [][\A i \in Procs :
        /\ (pc[i] = "throttle" /\ pc'[i] # pc[i])
              => /\ store' = store
                 /\ Last(log'[i]) \in {"allowed", "suppressed"}
                      => (Last(log'[i]) = "allowed"
                            <=> ThrottleRuleOn(store, now', Identity(Subject(i))))
        /\ (pc[i] = "send" /\ pc'[i] # pc[i]) => store' = store
        /\ (\E id \in Identities : MaxNotifiedIn(store', id) > MaxNotifiedIn(store, id))
              => \E j \in Procs : pc[j] = "mark" /\ pc'[j] = "loop"]_vars

\* The race: both invocations, each on its own record of one identity, were
\* allowed by the table-answered throttle and had their alerts accepted
\* within the cooldown, before either has written lastNotifiedAt.
C18_Witness ==
    /\ \A i \in Procs :
          /\ pc[i] = "mark"
          /\ log[i] = <<"put_ok", "allowed", "posted">>
    /\ Identity(Subject(1)) = Identity(Subject(2))
    /\ Key(Subject(1)) # Key(Subject(2))
    /\ Len(slack) = 2
    /\ Identity(slack[1].text) = Identity(slack[2].text)
    /\ slack[2].at - slack[1].at <= NOTIFICATION_COOLDOWN_MINUTES * 60
    /\ \A y \in store : ~Notified(y) /\ LastNotifiedAt(y) = 0

\* The incomplete records of a table.
IncompleteIn(table) == {x \in table : Incomplete(x)}

\* C19: an answered reconciliation update changes the message and
\* is_complete of the selected record and nothing else: the record keeps
\* its other attributes, every other record stays as it was, and the table
\* has one incomplete record less; a failed update changes nothing.
C19_ReconciliationFrame ==
    [][\A i \in Procs :
        (pc[i] = "update" /\ pc'[i] # pc[i])
            => IF Last(log'[i]) = "updated"
               THEN /\ {x \in store : Key(x) # Key(incomplete_error[i])}
                         = {y \in store' : Key(y) # Key(incomplete_error[i])}
                    /\ \E x \in store, y \in store' :
                          /\ Key(x) = Key(incomplete_error[i])
                          /\ Key(y) = Key(x)
                          /\ Incomplete(x)
                          /\ Complete(y)
                          /\ y.message = Stripped(message_text[i])
                          /\ DOMAIN y = DOMAIN x
                          /\ \A a \in DOMAIN x \ {"message", "is_complete"} :
                                y[a] = x[a]
                    /\ Cardinality(store') = Cardinality(store)
                    /\ Cardinality(IncompleteIn(store'))
                          = Cardinality(IncompleteIn(store)) - 1
               ELSE store' = store]_vars

\* A description was merged into one of two open records; the other is
\* still open.
C19_Witness ==
    \E i \in Procs :
        /\ pc[i] = "throttle"
        /\ Last(log[i]) = "updated"
        /\ updated_error[i] \in store
        /\ updated_error[i].expiry_time = incomplete_error[i].expiry_time
        /\ IncompleteIn(store) # {}

\* The key the current line of invocation i works on: the header's, or the
\* key of the record selected for a description.
LineKey(i) ==
    IF error_data[i] # None THEN Key(error_data[i]) ELSE Key(incomplete_error[i])

\* The handler is through with the line it took up last.
LineOver(i) == pc[i] \in {"loop", "done"} /\ message_text[i] # <<>>

\* The webhook calls made for the current line.
Sends(i) ==
    {p \in DOMAIN log[i] : log[i][p] \in {"posted", "ValueError", "HTTPError"}}

\* What holds of every line whatever the table answers: at most one webhook
\* call, every write of the line goes to the line's one key and leaves one
\* record under it, an ignored or discarded line does nothing else, and a
\* stored record has notified = true exactly when its lastNotifiedAt > 0.
LineEffectBound ==
    /\ \A y \in store : Notified(y) <=> LastNotifiedAt(y) > 0
    /\ Len(slack') <= Len(slack) + 1
    /\ \A i \in Procs :
          /\ Cardinality(Sends(i)) <= 1
          /\ Range(log[i]) \cap {"ignored", "no_incomplete", "scan_failed"} # {}
                => Len(log[i]) = 1
          /\ (pc'[i] # pc[i] /\ store' # store)
                => /\ pc[i] \in {"put", "update", "mark"}
                   /\ {x \in store : Key(x) # LineKey(i)}
                          = {y \in store' : Key(y) # LineKey(i)}
                   /\ Cardinality({y \in store' : Key(y) = LineKey(i)}) = 1

\* C20 (as claimed): the bound above, and a finished header line has
\* created or overwritten its record, and a finished unrecognized line that
\* had an open record to go to has completed it.
C20_PerLineEffect ==
    [][/\ LineEffectBound
       /\ \A i \in Procs :
            LineOver(i) =>
                /\ route(message_text[i]) = "store" => "put_ok" \in Range(log[i])
                /\ (route(message_text[i]) = "describe" /\ "found" \in Range(log[i]))
                      => "updated" \in Range(log[i])]_vars

\* C20 (amended): the bound above, and when the table answers the write,
\* the put of a header line leaves its item under the header's key, and the
\* update of an unrecognized line completes the record selected.
C20_PerLineEffectBound ==
    [][/\ LineEffectBound
       /\ \A i \in Procs :
            /\ (pc[i] = "put" /\ pc'[i] # pc[i] /\ Last(log'[i]) = "put_ok")
                  => /\ error_data'[i] \in store'
                     /\ Key(error_data'[i]) = LineKey(i)
            /\ (pc[i] = "update" /\ pc'[i] # pc[i] /\ Last(log'[i]) = "updated")
                  => \E y \in store' : Key(y) = LineKey(i) /\ Complete(y)
            /\ LineOver(i) =>
                  /\ route(message_text[i]) = "store"
                        => Range(log[i]) \cap {"put_ok", "put_failed"} # {}
                  /\ (route(message_text[i]) = "describe" /\ "found" \in Range(log[i]))
                        => Range(log[i]) \cap {"updated", "update_failed"} # {}]_vars

\* A header line is over: it overwrote its record, one alert went out and
\* the record was marked, next to another record that stayed as it was.
C20_Witness ==
    \E i \in Procs :
        /\ LineOver(i)
        /\ log[i] = <<"put_ok", "allowed", "posted", "marked">>
        /\ Cardinality(store) = 2
        /\ \E y \in Stored(error_data[i]) : Notified(y) /\ LastNotifiedAt(y) > 0

====
